---- MODULE Spec2Model ----
(***************************************************************************)
(* Model of lib/rules/no-loss-of-precision.js: the predicate that decides  *)
(* whether a numeric literal's source text loses precision once decoded.   *)
(*                                                                         *)
(* A JavaScript string is a sequence of one-character strings, so that     *)
(* slice, indexOf, split, startsWith, ... are computed as the code         *)
(* computes them.  A JavaScript Number is a record                         *)
(*   [cls |-> "zero" | "fin" | "inf", dig |-> <<d1, ..., dn>>, exp |-> e]  *)
(* holding the exact decimal expansion d1.d2...dn * 10^e of the double.    *)
(***************************************************************************)
EXTENDS Integers, Sequences, FiniteSets, TLC

----------------------------------------------------------------------------
(* String primitives of the runtime, as the rule uses them.                *)

DigitChars == <<"0", "1", "2", "3", "4", "5", "6", "7", "8", "9",
                "A", "B", "C", "D", "E", "F">>

DecChars == {DigitChars[i] : i \in 1..10}

OctChars == {DigitChars[i] : i \in 1..8}

Chr(d) == DigitChars[d + 1]

Val(c) == (CHOOSE i \in 1..16 : DigitChars[i] = c) - 1

Chars(ds) == [i \in 1..Len(ds) |-> Chr(ds[i])]

Rep(c, n) == [i \in 1..n |-> c]

UpperChar(c) ==
    CASE c = "a" -> "A" [] c = "b" -> "B" [] c = "c" -> "C"
      [] c = "d" -> "D" [] c = "e" -> "E" [] c = "f" -> "F"
      [] c = "o" -> "O" [] c = "x" -> "X" [] OTHER -> c

toUpperCase(s) == [i \in 1..Len(s) |-> UpperChar(s[i])]

\* s.slice(i), i a 0-based index
sliceFrom(s, i) == SubSeq(s, i + 1, Len(s))

\* s.slice(0, j)
sliceTo(s, j) == SubSeq(s, 1, j)

startsWith(s, p) == Len(p) <= Len(s) /\ SubSeq(s, 1, Len(p)) = p

endsWith(s, p) ==
    Len(p) <= Len(s) /\ SubSeq(s, Len(s) - Len(p) + 1, Len(s)) = p

includes(s, c) == \E i \in 1..Len(s) : s[i] = c

\* 0-based index of the first c in s, -1 when there is none
indexOf(s, c) ==
    IF includes(s, c)
    THEN (CHOOSE i \in 1..Len(s) : s[i] = c /\ \A j \in 1..(i - 1) : s[j] # c) - 1
    ELSE -1

\* s.replace(c, t): the first c only
replaceFirst(s, c, t) ==
    IF includes(s, c)
    THEN sliceTo(s, indexOf(s, c)) \o t \o sliceFrom(s, indexOf(s, c) + 1)
    ELSE s

\* s.replace(/c/gu, ""): every c
removeAll(s, c) == SelectSeq(s, LAMBDA x : x # c)

\* s.split(c): the pieces between every c
RECURSIVE split(_, _)
split(s, c) ==
    IF includes(s, c)
    THEN <<sliceTo(s, indexOf(s, c))>> \o split(sliceFrom(s, indexOf(s, c) + 1), c)
    ELSE <<s>>

\* JavaScript numbers the rule computes with: an integer or NaN
Int_(n) == [nan |-> FALSE, n |-> n]

NaN == [nan |-> TRUE, n |-> 0]

plus(a, k) == IF a.nan THEN NaN ELSE Int_(a.n + k)

RECURSIVE NatToStr(_)
NatToStr(n) ==
    IF n < 10 THEN <<Chr(n)>> ELSE NatToStr(n \div 10) \o <<Chr(n % 10)>>

\* `${n}` for an integer or NaN
template(a) ==
    IF a.nan THEN <<"N", "a", "N">>
    ELSE IF a.n < 0 THEN <<"-">> \o NatToStr(-a.n) ELSE NatToStr(a.n)

RECURSIVE leadingDigits(_)
leadingDigits(s) ==
    IF s # <<>> /\ s[1] \in DecChars
    THEN <<s[1]>> \o leadingDigits(Tail(s))
    ELSE <<>>

RECURSIVE digitsToNat(_)
digitsToNat(s) ==
    IF s = <<>> THEN 0 ELSE digitsToNat(sliceTo(s, Len(s) - 1)) * 10 + Val(s[Len(s)])

\* parseInt(s, 10): an optional sign, then the longest run of digits
parseInt(s) ==
    LET neg == s # <<>> /\ s[1] = "-"
        body == IF s # <<>> /\ s[1] \in {"+", "-"} THEN Tail(s) ELSE s
        ds == leadingDigits(body)
    IN IF ds = <<>> THEN NaN
       ELSE Int_(IF neg THEN -digitsToNat(ds) ELSE digitsToNat(ds))

----------------------------------------------------------------------------
(* The digit-string utilities and the decimal normalizer.                  *)

Undefined == <<"u", "n", "d", "e", "f", "i", "n", "e", "d">>

addDecimalPointToNumber(stringNumber) ==
    (IF stringNumber = <<>> THEN Undefined ELSE <<stringNumber[1]>>)
        \o <<".">> \o sliceFrom(stringNumber, 1)

removeLeadingZeros(numberAsString) ==
    IF \E i \in 1..Len(numberAsString) : numberAsString[i] # "0"
    THEN sliceFrom(numberAsString,
                   (CHOOSE i \in 1..Len(numberAsString) :
                       /\ numberAsString[i] # "0"
                       /\ \A j \in 1..(i - 1) : numberAsString[j] = "0") - 1)
    ELSE numberAsString

removeTrailingZeros(numberAsString) ==
    IF \E i \in 1..Len(numberAsString) : numberAsString[i] # "0"
    THEN sliceTo(numberAsString,
                 CHOOSE i \in 1..Len(numberAsString) :
                     /\ numberAsString[i] # "0"
                     /\ \A j \in (i + 1)..Len(numberAsString) : numberAsString[j] = "0")
    ELSE numberAsString

\* normalizeInteger keeping the trailing zeros of the integer
normalizeIntegerKeepingZeros(stringInteger) ==
    LET significantDigits == removeLeadingZeros(stringInteger)
    IN [magnitude |-> IF startsWith(stringInteger, <<"0">>)
                      THEN Len(stringInteger) - 2
                      ELSE Len(stringInteger) - 1,
        coefficient |-> addDecimalPointToNumber(significantDigits)]

normalizeInteger(stringInteger) ==
    LET significantDigits == removeTrailingZeros(removeLeadingZeros(stringInteger))
    IN [magnitude |-> IF startsWith(stringInteger, <<"0">>)
                      THEN Len(stringInteger) - 2
                      ELSE Len(stringInteger) - 1,
        coefficient |-> addDecimalPointToNumber(significantDigits)]

normalizeFloat(stringFloat) ==
    LET trimmedFloat == removeLeadingZeros(stringFloat)
    IN IF startsWith(trimmedFloat, <<".">>)
       THEN LET decimalDigits == sliceFrom(trimmedFloat, 1)
                significantDigits == removeLeadingZeros(decimalDigits)
            IN [magnitude |-> Len(significantDigits) - Len(decimalDigits) - 1,
                coefficient |-> addDecimalPointToNumber(significantDigits)]
       ELSE [magnitude |-> indexOf(trimmedFloat, ".") - 1,
             coefficient |-> addDecimalPointToNumber(
                                 replaceFirst(trimmedFloat, ".", <<>>))]

\* The coefficient and the magnitude convertNumberToScientificNotation joins
scientificParts(stringNumber) ==
    LET splitNumber == split(replaceFirst(stringNumber, "E", <<"e">>), "e")
        originalCoefficient == splitNumber[1]
        normalizedNumber == IF includes(stringNumber, ".")
                            THEN normalizeFloat(originalCoefficient)
                            ELSE normalizeInteger(originalCoefficient)
    IN [coefficient |-> normalizedNumber.coefficient,
        magnitude |-> IF Len(splitNumber) > 1
                      THEN plus(parseInt(splitNumber[2]), normalizedNumber.magnitude)
                      ELSE Int_(normalizedNumber.magnitude)]

convertNumberToScientificNotation(stringNumber) ==
    LET parts == scientificParts(stringNumber)
    IN parts.coefficient \o <<"e">> \o template(parts.magnitude)

----------------------------------------------------------------------------
(* Natural numbers of any size, as sequences of decimal digits (most       *)
(* significant first, no leading zero, zero = << >>): the arithmetic the   *)
(* runtime's Number needs beyond the model checker's machine integers.     *)

\* The decimal digits of a machine integer (<< >> for 0)
RECURSIVE natDigits(_)
natDigits(n) == IF n = 0 THEN <<>> ELSE Append(natDigits(n \div 10), n % 10)

\* ds * k + c over a block of digits: the block's digits and the carry out
\* (halving the block keeps the recursion shallow)
RECURSIVE mulAddBlock(_, _, _)
mulAddBlock(ds, k, c) ==
    IF ds = <<>> THEN [d |-> <<>>, c |-> c]
    ELSE IF Len(ds) = 1
    THEN [d |-> <<(ds[1] * k + c) % 10>>, c |-> (ds[1] * k + c) \div 10]
    ELSE LET h == Len(ds) \div 2
             lo == mulAddBlock(SubSeq(ds, h + 1, Len(ds)), k, c)
             hi == mulAddBlock(SubSeq(ds, 1, h), k, lo.c)
         IN \* the low half first: its carry goes into the high half
            IF lo.c >= 0 THEN [d |-> hi.d \o lo.d, c |-> hi.c]
            ELSE [d |-> <<>>, c |-> 0]

\* ds * k + c
mulAdd(ds, k, c) ==
    LET r == mulAddBlock(ds, k, c) IN natDigits(r.c) \o r.d

\* Long division of a block of digits by k with remainder rem coming in:
\* the block's quotient digits and the remainder going out
RECURSIVE divBlock(_, _, _)
divBlock(ds, k, rem) ==
    IF ds = <<>> THEN [q |-> <<>>, r |-> rem]
    ELSE IF Len(ds) = 1
    THEN [q |-> <<(rem * 10 + ds[1]) \div k>>, r |-> (rem * 10 + ds[1]) % k]
    ELSE LET h == Len(ds) \div 2
             hi == divBlock(SubSeq(ds, 1, h), k, 0 + rem)
             lo == divBlock(SubSeq(ds, h + 1, Len(ds)), k, hi.r)
         IN [q |-> hi.q \o lo.q, r |-> lo.r]

stripLeft(ds) ==
    IF \E i \in 1..Len(ds) : ds[i] # 0
    THEN SubSeq(ds, CHOOSE i \in 1..Len(ds) :
                        ds[i] # 0 /\ \A j \in 1..(i - 1) : ds[j] = 0, Len(ds))
    ELSE <<>>

stripRight(ds) ==
    IF \E i \in 1..Len(ds) : ds[i] # 0
    THEN SubSeq(ds, 1, CHOOSE i \in 1..Len(ds) :
                           ds[i] # 0 /\ \A j \in (i + 1)..Len(ds) : ds[j] = 0)
    ELSE <<>>

\* [q |-> ds div k, r |-> ds mod k]
divMod(ds, k) ==
    LET r == divBlock(ds, k, 0) IN [q |-> stripLeft(r.q), r |-> r.r]

RECURSIVE toBase(_, _)
\* the digits of ds in base b, most significant first (<< >> for zero)
toBase(ds, b) ==
    IF ds = <<>> THEN <<>>
    ELSE LET d == divMod(ds, b) IN Append(toBase(d.q, b), d.r)

RECURSIVE fromBase(_, _)
\* the decimal digits of the number whose base-b digits are xs
fromBase(xs, b) ==
    IF xs = <<>> THEN <<>>
    ELSE mulAdd(fromBase(sliceTo(xs, Len(xs) - 1), b), b, xs[Len(xs)])

pow2(n) == 2 ^ n

\* Base conversions go through words of WordBits bits
WordBits == 24

\* the bits of ds, most significant first (<< >> for zero)
toBits(ds) ==
    LET ws == toBase(ds, pow2(WordBits))
    IN stripLeft([i \in 1..(Len(ws) * WordBits) |->
                    (ws[(i - 1) \div WordBits + 1]
                        \div pow2(WordBits - 1 - ((i - 1) % WordBits))) % 2])

\* the digits, base 2^w, of the number whose bits are bs
regroup(bs, w) ==
    LET n == (Len(bs) + w - 1) \div w
        padded == Rep(0, n * w - Len(bs)) \o bs
        word(j) == SubSeq(padded, (j - 1) * w + 1, j * w)
        RECURSIVE value(_)
        value(xs) ==
            IF Len(xs) <= 1 THEN (IF xs = <<>> THEN 0 ELSE xs[1])
            ELSE LET h == Len(xs) \div 2
                 IN value(SubSeq(xs, 1, h)) * pow2(Len(xs) - h)
                        + value(SubSeq(xs, h + 1, Len(xs)))
    IN [j \in 1..n |-> value(word(j))]

\* the decimal digits of the number whose bits are bs
fromBits(bs) == fromBase(regroup(bs, WordBits), pow2(WordBits))

increment(ds) == mulAdd(ds, 1, 1)

incrementBits(bs) ==
    IF \E i \in 1..Len(bs) : bs[i] = 0
    THEN LET j == CHOOSE i \in 1..Len(bs) :
                      bs[i] = 0 /\ \A m \in (i + 1)..Len(bs) : bs[m] = 1
         IN sliceTo(bs, j - 1) \o <<1>> \o Rep(0, Len(bs) - j)
    ELSE <<1>> \o Rep(0, Len(bs))

----------------------------------------------------------------------------
(* The runtime's Number: IEEE-754 binary64.                                *)

MantissaBits == 53

MaxBinaryExponent == 1023

MaxDecimalExponent == 308

MinDecimalExponent == -324

Zero == [cls |-> "zero", dig |-> <<>>, exp |-> 0]

Infinity == [cls |-> "inf", dig |-> <<>>, exp |-> 0]

Finite(dig, exp) == [cls |-> "fin", dig |-> dig, exp |-> exp]

RECURSIVE mulPow(_, _, _, _)
\* ds * base^n, word base^step at a time
mulPow(ds, base, step, n) ==
    IF n = 0 \/ ds = <<>> THEN ds
    ELSE IF n >= step THEN mulPow(mulAdd(ds, base ^ step, 0), base, step, n - step)
    ELSE mulAdd(ds, base ^ n, 0)

mulPow2(ds, n) == mulPow(ds, 2, WordBits, n)

mulPow5(ds, n) == mulPow(ds, 5, 10, n)

\* The bits bs (most significant first) of an integer, with `inexact` set when
\* a fraction below the last bit was dropped, rounded to MantissaBits
\* significant bits: to nearest, ties to even
roundBits(bs, inexact) ==
    IF Len(bs) <= MantissaBits THEN bs
    ELSE LET kept == sliceTo(bs, MantissaBits)
             guard == bs[MantissaBits + 1]
             sticky == inexact \/ \E i \in (MantissaBits + 2)..Len(bs) : bs[i] = 1
             up == guard = 1 /\ (sticky \/ kept[MantissaBits] = 1)
         IN (IF up THEN incrementBits(kept) ELSE kept)
                \o Rep(0, Len(bs) - MantissaBits)

\* The double nearest to the natural number ds
integerToNumber(ds) ==
    IF ds = <<>> THEN Zero
    ELSE LET bs == roundBits(toBits(ds), FALSE)
         IN IF Len(bs) > MaxBinaryExponent + 1 THEN Infinity
            ELSE LET n == fromBits(bs)
                 IN Finite(stripRight(n), Len(n) - 1)

\* The double nearest to ds / 10^k, k > 0, ds > 0: the quotient
\* ds * 2^s / 10^k carries at least MantissaBits + 2 bits, is rounded, and
\* the result m * 2^(u - s) is written out in decimal
fractionToNumber(ds, k) ==
    LET s == MantissaBits + 2 + 4 * k
        scaled == mulPow2(ds, s)
        quotient == sliceTo(scaled, Len(scaled) - k)
        inexact == \E i \in (Len(scaled) - k + 1)..Len(scaled) : scaled[i] # 0
        bs == toBits(quotient)
        m == stripRight(roundBits(bs, inexact))
        t == s - (Len(bs) - Len(m))
    IN IF bs = <<>> \/ m = <<>> THEN Zero
       ELSE IF t <= 0
       THEN LET n == mulPow2(fromBits(m), -t) IN Finite(stripRight(n), Len(n) - 1)
       ELSE LET n == mulPow5(fromBits(m), t)
            IN Finite(stripRight(n), Len(n) - 1 - t)

isInteger(x) == x.cls = "zero" \/ (x.cls = "fin" /\ x.exp >= Len(x.dig) - 1)

\* The natural number an integer-valued Number holds
numberToInteger(x) ==
    IF x.cls = "zero" THEN <<>> ELSE x.dig \o Rep(0, x.exp - (Len(x.dig) - 1))

\* The double nearest to dig[1].dig[2]... * 10^exp (dig without leading zero),
\* for values in the range of normal doubles
decimalToNumber(dig, exp) ==
    LET d == stripRight(dig)
    IN IF d = <<>> THEN Zero
       ELSE IF exp > MaxDecimalExponent THEN Infinity
       ELSE IF exp < MinDecimalExponent THEN Zero
       ELSE IF exp >= Len(d) - 1
            THEN integerToNumber(d \o Rep(0, exp - (Len(d) - 1)))
       ELSE fractionToNumber(d, Len(d) - 1 - exp)

LowerDigitChars == <<"0", "1", "2", "3", "4", "5", "6", "7", "8", "9",
                     "a", "b", "c", "d", "e", "f">>

InfinityString == <<"I", "n", "f", "i", "n", "i", "t", "y">>

log2(radix) == CHOOSE w \in 1..4 : pow2(w) = radix

\* Number.prototype.toString(radix) of a non-negative integer-valued Number,
\* radix 2, 8 or 16
toString(x, radix) ==
    CASE x.cls = "inf" -> InfinityString
      [] x.cls = "zero" -> <<"0">>
      [] x.cls = "fin" /\ isInteger(x) ->
            LET xs == stripLeft(regroup(toBits(numberToInteger(x)), log2(radix)))
            IN [i \in 1..Len(xs) |-> LowerDigitChars[xs[i] + 1]]

\* The p-digit integer n and exponent e of Number.prototype.toPrecision:
\* n * 10^(e - p + 1) nearest to x, the larger n on a tie
precisionDigits(x, p) ==
    IF Len(x.dig) <= p
    THEN [n |-> x.dig \o Rep(0, p - Len(x.dig)), e |-> x.exp]
    ELSE LET kept == sliceTo(x.dig, p)
             up == x.dig[p + 1] >= 5
             r == IF up THEN increment(kept) ELSE kept
         IN IF Len(r) > p THEN [n |-> sliceTo(r, p), e |-> x.exp + 1]
            ELSE [n |-> r, e |-> x.exp]

\* Number.prototype.toPrecision(p) of a non-negative Number, 1 <= p <= 100
toPrecision(x, p) ==
    CASE x.cls = "inf" -> InfinityString
      [] x.cls = "zero" ->
            IF p = 1 THEN <<"0">> ELSE <<"0", ".">> \o Rep("0", p - 1)
      [] x.cls = "fin" ->
            LET r == precisionDigits(x, p)
                m == Chars(r.n)
                e == r.e
            IN IF e < -6 \/ e >= p
               THEN <<m[1]>> \o (IF p = 1 THEN <<>> ELSE <<".">> \o sliceFrom(m, 1))
                        \o <<"e">> \o (IF e >= 0 THEN <<"+">> ELSE <<"-">>)
                        \o NatToStr(IF e >= 0 THEN e ELSE -e)
               ELSE IF e = p - 1 THEN m
               ELSE IF e >= 0 THEN sliceTo(m, e + 1) \o <<".">> \o sliceFrom(m, e + 1)
               ELSE <<"0", ".">> \o Rep("0", -(e + 1)) \o m

----------------------------------------------------------------------------
(* The parser's side of a Literal node: the value a literal text denotes,  *)
(* decoded to a Number.  `production` is the grammar production the text   *)
(* was written in.                                                         *)

digitValues(s) == [i \in 1..Len(s) |-> Val(UpperChar(s[i]))]

\* the natural number written with the digits xs (values) in radix 2^w
radixToInteger(xs, w) ==
    fromBits(stripLeft([i \in 1..(Len(xs) * w) |->
                (xs[(i - 1) \div w + 1] \div pow2(w - 1 - ((i - 1) % w))) % 2]))

\* The mathematical value of the decimal literal t:
\* dig[1].dig[2]... * 10^exp, dig without leading or trailing zero
\* (dig = << >>: zero)
mathValue(t) ==
    LET lower == replaceFirst(t, "E", <<"e">>)
        mantissa == IF includes(lower, "e") THEN sliceTo(lower, indexOf(lower, "e"))
                    ELSE lower
        exponent == IF includes(lower, "e")
                    THEN parseInt(sliceFrom(lower, indexOf(lower, "e") + 1)).n
                    ELSE 0
        intPart == IF includes(mantissa, ".")
                   THEN sliceTo(mantissa, indexOf(mantissa, "."))
                   ELSE mantissa
        fracPart == IF includes(mantissa, ".")
                    THEN sliceFrom(mantissa, indexOf(mantissa, ".") + 1)
                    ELSE <<>>
        all == digitValues(intPart \o fracPart)
        sig == stripLeft(all)
    IN IF sig = <<>> THEN [dig |-> <<>>, exp |-> 0]
       ELSE [dig |-> stripRight(sig),
             exp |-> Len(intPart) - 1 - (Len(all) - Len(sig)) + exponent]

decodeDecimal(t) == decimalToNumber(mathValue(t).dig, mathValue(t).exp)

\* node.value of the literal written as raw
decode(raw, production) ==
    LET t == removeAll(raw, "_")
    IN CASE production = "hex" -> integerToNumber(radixToInteger(digitValues(sliceFrom(t, 2)), 4))
         [] production = "octal" -> integerToNumber(radixToInteger(digitValues(sliceFrom(t, 2)), 3))
         [] production = "binary" -> integerToNumber(radixToInteger(digitValues(sliceFrom(t, 2)), 1))
         [] production = "legacyOctal" -> integerToNumber(radixToInteger(digitValues(t), 3))
         [] production = "decimal" -> decodeDecimal(t)

Node(raw, production) == [raw |-> raw, value |-> decode(raw, production)]

----------------------------------------------------------------------------
(* The rule.                                                               *)

\* typeof node.value === "number": every node here is a numeric literal
isNumber(node) == node.value.cls \in {"zero", "fin", "inf"}

\* node.value as a condition: 0 is falsy
truthy(value) == value.cls # "zero"

\* getRaw leaving the separators in
getRawWithSeparators(node) == node.raw

getRaw(node) == removeAll(node.raw, "_")

prefixes == {<<"0", "x">>, <<"0", "X">>, <<"0", "b">>, <<"0", "B">>,
             <<"0", "o">>, <<"0", "O">>}

\* /^0[0-7]+$/u
legacyOctalPattern(s) ==
    Len(s) >= 2 /\ s[1] = "0" /\ \A i \in 2..Len(s) : s[i] \in OctChars

\* isBaseTen knowing the lowercase prefixes only
isBaseTenLowercasePrefixes(node) ==
    /\ \A prefix \in {<<"0", "x">>, <<"0", "b">>, <<"0", "o">>} :
          ~startsWith(node.raw, prefix)
    /\ ~legacyOctalPattern(node.raw)

isBaseTen(node) ==
    /\ \A prefix \in prefixes : ~startsWith(node.raw, prefix)
    /\ ~legacyOctalPattern(node.raw)

\* the radix notBaseTenLosesPrecision renders the value in
notBaseTenBase(node) ==
    LET rawString == toUpperCase(getRaw(node))
    IN IF startsWith(rawString, <<"0", "B">>) THEN 2
       ELSE IF startsWith(rawString, <<"0", "X">>) THEN 16
       ELSE 8

\* notBaseTenLosesPrecision comparing with the value as toString renders it
notBaseTenLosesPrecisionLowercase(node) ==
    LET rawString == toUpperCase(getRaw(node))
        base == notBaseTenBase(node)
    IN ~endsWith(rawString, toString(node.value, base))

notBaseTenLosesPrecision(node) ==
    LET rawString == toUpperCase(getRaw(node))
        base == notBaseTenBase(node)
    IN ~endsWith(rawString, toUpperCase(toString(node.value, base)))

PrecisionLimit == 100

requestedPrecisionOf(normalizedRawNumber) ==
    Len(replaceFirst(split(normalizedRawNumber, "e")[1], ".", <<>>))

\* toPrecision throws a RangeError for a finite value and a precision outside
\* 1..100
toPrecisionThrows(value, p) ==
    value.cls # "inf" /\ (p < 1 \/ p > PrecisionLimit)

\* baseTenRun without the guard on the requested precision
baseTenRunUnguarded(node) ==
    LET normalizedRawNumber == convertNumberToScientificNotation(getRaw(node))
        requestedPrecision == requestedPrecisionOf(normalizedRawNumber)
    IN IF toPrecisionThrows(node.value, requestedPrecision)
       THEN [threw |-> TRUE, result |-> FALSE, called |-> TRUE,
             precision |-> requestedPrecision,
             normalizedRaw |-> normalizedRawNumber, normalizedStored |-> <<>>]
       ELSE LET storedNumber == toPrecision(node.value, requestedPrecision)
                normalizedStoredNumber ==
                    convertNumberToScientificNotation(storedNumber)
            IN [threw |-> FALSE,
                result |-> normalizedRawNumber # normalizedStoredNumber,
                called |-> TRUE,
                precision |-> requestedPrecision,
                normalizedRaw |-> normalizedRawNumber,
                normalizedStored |-> normalizedStoredNumber]

\* baseTenLosesPrecision, with what it did on the way: whether it threw,
\* the precision toPrecision was called with (0: not called), and the two
\* normalized forms it compared
baseTenRun(node) ==
    LET normalizedRawNumber == convertNumberToScientificNotation(getRaw(node))
        requestedPrecision == requestedPrecisionOf(normalizedRawNumber)
    IN IF requestedPrecision > PrecisionLimit
       THEN [threw |-> FALSE, result |-> TRUE, called |-> FALSE,
             precision |-> requestedPrecision,
             normalizedRaw |-> normalizedRawNumber, normalizedStored |-> <<>>]
       ELSE IF toPrecisionThrows(node.value, requestedPrecision)
       THEN [threw |-> TRUE, result |-> FALSE, called |-> TRUE,
             precision |-> requestedPrecision,
             normalizedRaw |-> normalizedRawNumber, normalizedStored |-> <<>>]
       ELSE LET storedNumber == toPrecision(node.value, requestedPrecision)
                normalizedStoredNumber ==
                    convertNumberToScientificNotation(storedNumber)
            IN [threw |-> FALSE,
                result |-> normalizedRawNumber # normalizedStoredNumber,
                called |-> TRUE,
                precision |-> requestedPrecision,
                normalizedRaw |-> normalizedRawNumber,
                normalizedStored |-> normalizedStoredNumber]

baseTenLosesPrecision(node) == baseTenRun(node).result

\* losesPrecision, with the comparator it took and the radix it rendered in
losesPrecisionRun(node) ==
    IF isBaseTen(node)
    THEN [baseTenRun(node) EXCEPT !.result = baseTenLosesPrecision(node)]
             @@ [branch |-> "baseTen", base |-> 10]
    ELSE [threw |-> FALSE, result |-> notBaseTenLosesPrecision(node),
          called |-> FALSE, precision |-> 0,
          normalizedRaw |-> <<>>, normalizedStored |-> <<>>,
          branch |-> "notBaseTen", base |-> notBaseTenBase(node)]

losesPrecision(node) == losesPrecisionRun(node).result

\* Literal(node): whether the handler reports the node
Literal(node) == truthy(node.value) /\ isNumber(node) /\ losesPrecision(node)

----------------------------------------------------------------------------
(* The literals the rule is run on: the numeric literals of the grammar    *)
(* (with its legacy forms), over small digit alphabets and bounded lengths,*)
(* and a few long literals around the limits of the Number type.           *)

\* Longest integer part / run of radix digits
MaxInt == 3

\* Longest fraction
MaxFrac == 2

IntAlphabet == {"0", "1", "8"}

FracAlphabet == {"0", "5"}

HexAlphabet == {"0", "a", "F"}

BinaryAlphabet == {"0", "1"}

OctalAlphabet == {"0", "7"}

Exponents == {<<>>, <<"e", "+", "1", "0">>, <<"E", "-", "2">>}

Strings(alphabet, lo, hi) == UNION {[1..k -> alphabet] : k \in lo..hi}

\* DecimalIntegerLiteral: 0, a number without leading zero, or (legacy) a
\* number with leading zeros and a digit 8 or 9
decimalInteger(s) ==
    /\ s # <<>>
    /\ Len(s) = 1 \/ s[1] # "0" \/ \E i \in 1..Len(s) : s[i] \in {"8", "9"}

Fractions ==
    {<<>>} \cup {<<".">> \o f : f \in Strings(FracAlphabet, 0, MaxFrac)}

DecimalLiterals ==
    {ip \o fr \o ex :
        ip \in {s \in Strings(IntAlphabet, 1, MaxInt) : decimalInteger(s)},
        fr \in Fractions, ex \in Exponents}
    \cup {fr \o ex : fr \in {f \in Fractions : Len(f) >= 2}, ex \in Exponents}

\* LegacyOctalIntegerLiteral: a leading 0, then digits 0 to 7 only
legacyOctalInteger(s) ==
    /\ Len(s) >= 2 /\ s[1] = "0"
    /\ ~\E i \in 1..Len(s) : s[i] \in {"8", "9"}

LegacyOctalLiterals ==
    {s \in Strings(IntAlphabet, 2, MaxInt) : legacyOctalInteger(s)}

Prefixed(marks, alphabet) ==
    {<<"0", m>> \o ds : m \in marks, ds \in Strings(alphabet, 1, MaxInt)}

Tagged(texts, production) ==
    {[text |-> t, production |-> production] : t \in texts}

GrammarLiterals ==
    Tagged(DecimalLiterals, "decimal")
        \cup Tagged(LegacyOctalLiterals, "legacyOctal")
        \cup Tagged(Prefixed({"x", "X"}, HexAlphabet), "hex")
        \cup Tagged(Prefixed({"b", "B"}, BinaryAlphabet), "binary")
        \cup Tagged(Prefixed({"o", "O"}, OctalAlphabet), "octal")

\* 2^53 = 9007199254740992 = 0x20000000000000 = 0o400000000000000000
LimitLiterals ==
    Tagged({Chars(<<9, 0, 0, 7, 1, 9, 9, 2, 5, 4, 7, 4, 0, 9, 9, d>>) : d \in {2, 3}}
             \cup {Chars(<<5, 1, 2, 3>> \o Rep(0, 29) \o <<d>>) : d \in {0, 1}}
             \cup {<<"1", ".">> \o Rep("0", 15) \o <<"1">>,
                   <<"0", ".", "1">> \o Rep("0", 16),
                   <<"1", "e", "3", "0", "9">>,
                   <<"1", "e", "-", "4", "0", "0">>}
             \cup {<<"0", ".">> \o Rep("0", n) : n \in {99, 100, 101}}
             \cup {Rep("1", 101) \o <<"e", "3", "0", "9">>}, "decimal")
        \cup Tagged({<<"0", "x", "2">> \o Rep("0", 12) \o <<d>> : d \in {"0", "1"}}
                      \cup {<<"0", "X", "0", "0", "2">> \o Rep("0", 12) \o <<"1">>},
                    "hex")
        \cup Tagged({<<"0", "b", "1">> \o Rep("0", 52) \o <<"1">>}, "binary")
        \cup Tagged({<<"0", "4">> \o Rep("0", 16) \o <<"1">>}, "legacyOctal")

\* The places of text where a numeric separator may stand: between two
\* digits, not after a leading 0, not in a legacy literal
separatorPlaces(lit) ==
    LET t == lit.text
    IN CASE lit.production = "legacyOctal" -> {}
         [] lit.production = "decimal" ->
              IF Len(t) >= 2 /\ t[1] = "0" /\ t[2] \in DecChars THEN {}
              ELSE {i \in 1..(Len(t) - 1) : t[i] \in DecChars /\ t[i + 1] \in DecChars}
         [] OTHER -> 3..(Len(t) - 1)

\* The ways of writing lit: as it is, or with one separator
Raws(lit) ==
    {lit.text} \cup {sliceTo(lit.text, i) \o <<"_">> \o sliceFrom(lit.text, i) :
                        i \in separatorPlaces(lit)}

----------------------------------------------------------------------------
(* The state machine: a Literal node is drawn, and the handler, the         *)
(* predicate or the normalizer is applied to it.                           *)

VARIABLES
    node,         \* the Literal node: [raw, value]
    production,   \* the grammar production node.raw was written in
    pc,           \* "start", "visited", "checked", "normalized", "renormalized"
    reported,     \* Literal(node): whether context.report was called
    run,          \* what losesPrecision(node) did and returned
    normalized,   \* the parts of convertNumberToScientificNotation(getRaw(node))
    renormalized  \* convertNumberToScientificNotation of that result

vars == <<node, production, pc, reported, run, normalized, renormalized>>

NoRun == [threw |-> FALSE, result |-> FALSE, called |-> FALSE, precision |-> 0,
          normalizedRaw |-> <<>>, normalizedStored |-> <<>>,
          branch |-> "", base |-> 0]

NoParts == [coefficient |-> <<>>, magnitude |-> Int_(0)]

Start(raw, prod) ==
    /\ node = Node(raw, prod)
    /\ production = prod
    /\ pc = "start"
    /\ reported = FALSE
    /\ run = NoRun
    /\ normalized = NoParts
    /\ renormalized = <<>>

Init ==
    \/ \E lit \in GrammarLiterals :
          \E raw \in Raws(lit) : Start(raw, lit.production)
    \/ \E lit \in LimitLiterals : Start(lit.text, lit.production)

\* The traversal visits the node: the Literal handler
Visit ==
    /\ pc = "start"
    /\ reported' = Literal(node)
    /\ pc' = "visited"
    /\ UNCHANGED <<node, production, run, normalized, renormalized>>

\* losesPrecision(node), called on its own
Check ==
    /\ pc = "start"
    /\ run' = losesPrecisionRun(node)
    /\ pc' = "checked"
    /\ UNCHANGED <<node, production, reported, normalized, renormalized>>

\* convertNumberToScientificNotation(getRaw(node)), as baseTenLosesPrecision
\* calls it on a base-ten node
Normalize ==
    /\ pc = "start"
    /\ isBaseTen(node)
    /\ normalized' = scientificParts(getRaw(node))
    /\ pc' = "normalized"
    /\ UNCHANGED <<node, production, reported, run, renormalized>>

\* convertNumberToScientificNotation applied to its own result
Renormalize ==
    /\ pc = "normalized"
    /\ renormalized' = convertNumberToScientificNotation(
                           normalized.coefficient \o <<"e">>
                               \o template(normalized.magnitude))
    /\ pc' = "renormalized"
    /\ UNCHANGED <<node, production, reported, run, normalized>>

Next == Visit \/ Check \/ Normalize \/ Renormalize

Spec == Init /\ [][Next]_vars

----------------------------------------------------------------------------
(* Properties.                                                             *)

\* The literal as written, without separators
plain == removeAll(node.raw, "_")

plainNode == [raw |-> plain, value |-> node.value]

isDecimal == production = "decimal"

\* The literal denotes zero
denotesZero == isDecimal /\ mathValue(plain).dig = <<>>

join(parts) == parts.coefficient \o <<"e">> \o template(parts.magnitude)

digitsOf(coefficient) == replaceFirst(coefficient, ".", <<>>)

\* C1: for every decimal literal text denoting zero, losesPrecision itself
\* returns false.
C1_ZeroFormsNeverLose ==
    (pc = "checked" /\ denotesZero) => run.result = FALSE

\* C1, at the level of the rule: the Literal handler never reports a literal
\* denoting zero.
C1_ZeroFormsNeverReported ==
    (pc = "visited" /\ denotesZero) => reported = FALSE

\* The mantissa of the literal, and whether it is written in float form
mantissaOf(t) == split(replaceFirst(t, "E", <<"e">>), "e")[1]

\* Other ways of writing the value of t: d.ddd e E, and ddd e E'
asScientific(t) ==
    LET v == mathValue(t)
    IN addDecimalPointToNumber(Chars(v.dig)) \o <<"e">> \o template(Int_(v.exp))

asInteger(t) ==
    LET v == mathValue(t)
    IN Chars(v.dig) \o <<"e">> \o template(Int_(v.exp - (Len(v.dig) - 1)))

canonical(t) ==
    [coefficient |-> addDecimalPointToNumber(Chars(mathValue(t).dig)),
     magnitude |-> Int_(mathValue(t).exp)]

\* C2: two decimal literal texts that denote the same value in different
\* surface forms normalize to the identical coefficient and magnitude: the
\* literal normalizes as the scientific and the integer-exponent form of its
\* value do.
C2_SameValueSameNormalForm ==
    (pc = "normalized" /\ isDecimal /\ ~denotesZero) =>
        /\ scientificParts(asScientific(plain)) = normalized
        /\ scientificParts(asInteger(plain)) = normalized

\* The literal carries no zero that its value does not need: a mantissa
\* with a point does not end its digits with 0, a mantissa without a point
\* has at most one leading 0
noSpareZeros(t) ==
    LET m == mantissaOf(t)
        ds == digitsOf(m)
    IN IF includes(m, ".") THEN ds[Len(ds)] # "0"
       ELSE ~startsWith(m, <<"0", "0">>)

\* C2 as amended: two decimal literal texts that denote the same non-zero
\* value and carry no spare zero normalize to the identical coefficient and
\* magnitude, the digits d.ddd and the exponent of the value.
C2_SameValueSameNormalFormNoSpareZeros ==
    (pc = "normalized" /\ isDecimal /\ ~denotesZero /\ noSpareZeros(plain)) =>
        /\ normalized = canonical(plain)
        /\ scientificParts(asScientific(plain)) = normalized
        /\ scientificParts(asInteger(plain)) = normalized

C2_Witness ==
    /\ pc = "normalized" /\ isDecimal /\ ~denotesZero /\ noSpareZeros(plain)
    /\ includes(plain, ".") /\ includes(plain, "E")
    /\ plain # asScientific(plain)
    /\ Len(normalized.coefficient) > 2

\* C3: losesPrecision is total: it returns a boolean and raises no
\* exception, and toPrecision is only ever invoked with 1 <= p <= 100.
C3_Total ==
    pc = "checked" =>
        /\ ~run.threw
        /\ run.result \in BOOLEAN
        /\ run.called => (1 <= run.precision /\ run.precision <= 100)

C3_Witness ==
    /\ pc = "checked" /\ run.called /\ run.precision = 100
    /\ node.value.cls = "zero"

\* C4: writing normalize(t) back as "<coefficient>e<magnitude>" and
\* normalizing that string again yields the identical coefficient and
\* magnitude, zero forms included.
C4_Idempotent ==
    pc = "renormalized" => renormalized = join(normalized)

\* C5: every coefficient the normalizer produces is one decimal digit, '.',
\* then zero or more decimal digits, and its first digit is non-zero unless
\* the literal denotes zero.
C5_CoefficientShape ==
    (pc = "normalized" /\ isDecimal) =>
        LET c == normalized.coefficient
        IN /\ Len(c) >= 2
           /\ c[1] \in DecChars
           /\ c[2] = "."
           /\ \A i \in 3..Len(c) : c[i] \in DecChars
           /\ c[1] = "0" => denotesZero

\* The radix of a production of the grammar
radixOf(prod) ==
    CASE prod = "hex" -> 16 [] prod = "binary" -> 2
      [] prod \in {"octal", "legacyOctal"} -> 8 [] prod = "decimal" -> 10

\* The digits of a non-decimal literal: separators and prefix removed,
\* uppercased
rawDigits ==
    toUpperCase(IF production = "legacyOctal" THEN plain ELSE sliceFrom(plain, 2))

rendered == toUpperCase(toString(node.value, radixOf(production)))

allZeros(s) == \A i \in 1..Len(s) : s[i] = "0"

\* C6: for a binary, octal or hex literal the verdict is true iff rawDigits
\* does not end with the value rendered in the literal's radix; leading
\* zeros never cause a true verdict, and all-zero digits with value 0 yield
\* false.
C6_SuffixComparison ==
    (pc = "checked" /\ ~isDecimal) =>
        /\ run.result = ~endsWith(rawDigits, rendered)
        /\ removeLeadingZeros(rawDigits) = rendered => ~run.result
        /\ (allZeros(rawDigits) /\ node.value.cls = "zero") => ~run.result

C6_Witness ==
    /\ pc = "checked" /\ ~isDecimal /\ ~run.result
    /\ rawDigits[1] = "0" /\ Len(rendered) < Len(rawDigits)
    /\ \E i \in 1..Len(rendered) : rendered[i] = "F"

C6_WitnessLoss == pc = "checked" /\ ~isDecimal /\ run.result

\* C7: separators never change the outcome: the radix classification and
\* the verdict computed from the raw text equal those computed from the text
\* with the separators removed.
C7_SeparatorsIgnored ==
    pc = "checked" =>
        /\ (run.branch = "baseTen") = isBaseTen(plainNode)
        /\ isBaseTen(node) = isBaseTen(plainNode)
        /\ run.result = losesPrecision(plainNode)

C7_Witness ==
    /\ pc = "checked" /\ includes(node.raw, "_") /\ isDecimal
    /\ includes(node.raw, ".")

\* C8: losesPrecision uses the non-decimal comparator exactly for the hex,
\* binary and octal (prefixed or legacy) literals, the decimal normalizer for
\* every other literal, and renders in the radix of the literal.
C8_RadixDispatch ==
    pc = "checked" =>
        /\ (run.branch = "notBaseTen") = (production # "decimal")
        /\ (run.branch = "baseTen") = (production = "decimal")
        /\ run.base = radixOf(production)

C8_Witness ==
    /\ pc = "checked" /\ production = "decimal" /\ run.branch = "baseTen"
    /\ plain = <<"0", "8">>

C8_WitnessLegacy ==
    /\ pc = "checked" /\ production = "legacyOctal" /\ run.base = 8
    /\ plain = <<"0", "0">>

\* C9: requestedPrecision is the number of digits of the normalized raw
\* coefficient without its decimal point; above 100 the verdict is true and
\* nothing is rendered; otherwise the verdict is true iff the normalized raw
\* text and the normalized rendering of the value differ.
C9_PrecisionComparison ==
    (pc = "checked" /\ isDecimal) =>
        LET parts == scientificParts(plain)
            p == Len(digitsOf(parts.coefficient))
        IN /\ run.precision = p
           /\ p > 100 => (run.result /\ ~run.called)
           /\ p <= 100 =>
                 /\ run.called
                 /\ run.result =
                      (join(parts) # join(scientificParts(toPrecision(node.value, p))))

\* C10: the normalizer preserves the denoted value: for a literal with a
\* non-zero value, coefficient x 10^magnitude is the number the text
\* denotes.
C10_ValuePreserved ==
    (pc = "normalized" /\ isDecimal /\ ~denotesZero) =>
        /\ ~normalized.magnitude.nan
        /\ stripRight(digitValues(digitsOf(normalized.coefficient)))
               = mathValue(plain).dig
        /\ normalized.magnitude.n = mathValue(plain).exp

====
